---- MODULE Spec2Model ----
(***************************************************************************)
(* Model of lf-watermark/src/lib.rs: the watermark value derived from a    *)
(* text (get_watermark_from_str), the colour conversions (rgb_to_ycbcr,    *)
(* ycbcr_to_rgb) and the embedding pipeline (embed_watermark_color).       *)
(*                                                                         *)
(* Floating point is modelled bit-exactly.  A float is a record            *)
(* [neg, m, e] standing for (-1)^neg * m * 2^e, where the magnitude m is a *)
(* natural number held as a little-endian sequence of 15-bit limbs (TLC's  *)
(* integers are 32 bits wide; an f64 significand has 53).  Every IEEE      *)
(* operation rounds its exact result to the precision p of its type        *)
(* (24 for f32, 53 for f64), ties to even.  The values of this program     *)
(* stay far from overflow and from the subnormal range, and the sign of a  *)
(* zero never reaches a result, so neither is modelled.                    *)
(***************************************************************************)
EXTENDS Integers, Sequences, FiniteSets, TLC

VARIABLES
    \* one call of get_watermark_from_str
    pcT, words, derived,
    \* one pixel through rgb_to_ycbcr and back through ycbcr_to_rgb
    pcC, pixel, mark, ycc, back, rounded,
    \* calls of embed_watermark_color: the arguments, the locals, the result
    pc, image, text, watermark, cbcr_channel, y_channel, cursor, planned,
    img_buffer, result,
    \* history: for each buffer element, the domain the buffer was in when the
    \* watermark was added to it; the number of calls made; the arguments
    \* and the result of the first call that returned
    marked, calls, prev

varsT == <<pcT, words, derived>>
varsC == <<pcC, pixel, mark, ycc, back, rounded>>
varsE == <<pc, image, text, watermark, cbcr_channel, y_channel, cursor, planned,
           img_buffer, result, marked, calls, prev>>
vars == <<varsT, varsC, varsE>>

(* ------------------------------------------------------------------ *)
(* Evaluation order.  F applied to the values of its arguments: the   *)
(* arguments are evaluated once, before F is, as the arguments of a   *)
(* function call of the program are.                                  *)
(* ------------------------------------------------------------------ *)
Strict1(F(_), x) == CHOOSE r \in {F(v) : v \in {x}} : TRUE
Strict2(F(_, _), x, y) == CHOOSE r \in {F(v, w) : v \in {x}, w \in {y}} : TRUE
Strict3(F(_, _, _), x, y, z) ==
    CHOOSE r \in {F(u, v, w) : u \in {x}, v \in {y}, w \in {z}} : TRUE

(* ------------------------------------------------------------------ *)
(* Natural numbers of any size: little-endian sequences of limbs,     *)
(* no leading zero limb, <<>> is 0.                                   *)
(* ------------------------------------------------------------------ *)
LimbBits == 15
Base == 2^LimbBits

RECURSIVE Pow2(_)
Pow2(n) == IF n = 0 THEN 1 ELSE 2 * Pow2(n - 1)

\* the index of the most significant non-zero limb among the first n
RECURSIVE TopLimb(_, _)
TopLimb(a, n) == IF n = 0 \/ a[n] # 0 THEN n ELSE TopLimb(a, n - 1)

BStrip(a) == Strict1(LAMBDA v : SubSeq(v, 1, TopLimb(v, Len(v))), a)

RECURSIVE BFromInt(_)
BFromInt(n) ==
    Strict1(LAMBDA v : IF v = 0 THEN <<>>
                       ELSE <<v % Base>> \o BFromInt(v \div Base), n)

RECURSIVE BToIntFrom(_, _)
BToIntFrom(a, k) ==
    IF k > Len(a) THEN 0 ELSE a[k] + Base * BToIntFrom(a, k + 1)

BToInt(a) == Strict1(LAMBDA v : BToIntFrom(v, 1), a)

Limb(a, k) == IF k <= Len(a) THEN a[k] ELSE 0

RECURSIVE BAddFrom(_, _, _, _)
BAddFrom(a, b, k, c) ==
    IF k > Len(a) /\ k > Len(b)
    THEN IF c = 0 THEN <<>> ELSE <<c>>
    ELSE Strict1(LAMBDA x : <<x % Base>> \o BAddFrom(a, b, k + 1, x \div Base),
                 Limb(a, k) + Limb(b, k) + c)

BAdd(a, b) == Strict2(LAMBDA v, w : BAddFrom(v, w, 1, 0), a, b)

\* a - b for a >= b
RECURSIVE BSubFrom(_, _, _, _)
BSubFrom(a, b, k, c) ==
    IF k > Len(a) THEN <<>>
    ELSE Strict1(LAMBDA x : IF x < 0
                            THEN <<x + Base>> \o BSubFrom(a, b, k + 1, 1)
                            ELSE <<x>> \o BSubFrom(a, b, k + 1, 0),
                 Limb(a, k) - Limb(b, k) - c)

BSub(a, b) == Strict2(LAMBDA v, w : BStrip(BSubFrom(v, w, 1, 0)), a, b)

\* a < b, comparing from the most significant limb
RECURSIVE BLessFrom(_, _, _)
BLessFrom(a, b, k) ==
    IF k = 0 THEN FALSE
    ELSE IF a[k] # b[k] THEN a[k] < b[k]
    ELSE BLessFrom(a, b, k - 1)

BLess(a, b) ==
    Strict2(LAMBDA v, w : IF Len(v) # Len(w) THEN Len(v) < Len(w)
                          ELSE BLessFrom(v, w, Len(v)), a, b)

\* a * n for a limb-sized n
RECURSIVE BMulSmallFrom(_, _, _, _)
BMulSmallFrom(a, n, k, c) ==
    IF k > Len(a)
    THEN IF c = 0 THEN <<>> ELSE <<c>>
    ELSE Strict1(LAMBDA x : <<x % Base>> \o BMulSmallFrom(a, n, k + 1, x \div Base),
                 a[k] * n + c)

BMulSmall(a, n) ==
    Strict2(LAMBDA v, w : BStrip(BMulSmallFrom(v, w, 1, 0)), a, n)

RECURSIVE BMulFrom(_, _, _)
BMulFrom(a, b, k) ==
    IF k > Len(b) THEN <<>>
    ELSE BAdd(BMulSmall(a, b[k]), <<0>> \o BMulFrom(a, b, k + 1))

BMul(a, b) == Strict2(LAMBDA v, w : BStrip(BMulFrom(v, w, 1)), a, b)

\* floor(a / d) and a mod d for 0 < d < 2^16, from the most significant limb:
\* r is the remainder so far, q the limbs of the quotient found so far
RECURSIVE BDivSmallFrom(_, _, _, _, _)
BDivSmallFrom(a, d, k, r, q) ==
    IF k = 0 THEN [q |-> BStrip(q), r |-> r]
    ELSE Strict1(LAMBDA x : BDivSmallFrom(a, d, k - 1, x % d, <<x \div d>> \o q),
                 r * Base + a[k])

BDivSmall(a, d) ==
    Strict2(LAMBDA v, w : BDivSmallFrom(v, w, Len(v), 0, <<>>), a, d)

Zeros(n) == [k \in 1..n |-> 0]

\* a * 2^s
BShl(a, s) ==
    Strict2(LAMBDA v, w : IF v = <<>> THEN <<>>
                          ELSE Zeros(w \div LimbBits)
                                   \o BMulSmall(v, Pow2(w % LimbBits)), a, s)

\* floor(a / 2^s)
BShr(a, s) ==
    Strict2(LAMBDA v, w :
                IF w \div LimbBits >= Len(v) THEN <<>>
                ELSE BDivSmall(SubSeq(v, (w \div LimbBits) + 1, Len(v)),
                               Pow2(w % LimbBits)).q, a, s)

\* bit k (0 is the least significant) of a
BBit(a, k) ==
    Strict2(LAMBDA v, w :
                (Limb(v, (w \div LimbBits) + 1) \div Pow2(w % LimbBits)) % 2, a, k)

\* are the s lowest bits of a all zero
BLowZero(a, s) == Strict2(LAMBDA v, w : BShl(BShr(v, w), w) = v, a, s)

RECURSIVE IntBitLen(_)
IntBitLen(n) == IF n = 0 THEN 0 ELSE 1 + IntBitLen(n \div 2)

BitLen(a) ==
    Strict1(LAMBDA v : IF v = <<>> THEN 0
                       ELSE LimbBits * (Len(v) - 1) + IntBitLen(v[Len(v)]), a)

\* the number of trailing zero bits of a # 0
RECURSIVE IntTrailing(_)
IntTrailing(n) == IF n % 2 = 1 THEN 0 ELSE 1 + IntTrailing(n \div 2)

RECURSIVE BTrailingFrom(_, _)
BTrailingFrom(a, k) ==
    IF a[k] = 0 THEN LimbBits + BTrailingFrom(a, k + 1) ELSE IntTrailing(a[k])

BTrailing(a) == Strict1(LAMBDA v : BTrailingFrom(v, 1), a)

(* ------------------------------------------------------------------ *)
(* IEEE-754 binary floating point of precision p, round to nearest,   *)
(* ties to even.                                                      *)
(* ------------------------------------------------------------------ *)
F32 == 24
F64 == 53

FZero == [neg |-> FALSE, m |-> <<>>, e |-> 0]

\* one record per value: the magnitude is odd, zero is FZero
FCanon(neg, m, e) ==
    Strict3(LAMBDA s, v, x :
                IF v = <<>> THEN FZero
                ELSE Strict1(LAMBDA t : [neg |-> s, m |-> BShr(v, t), e |-> x + t],
                             BTrailing(v)),
            neg, m, e)

\* m, whose length len exceeds p by s bits, rounded to p bits: the quotient
\* q by 2^s goes up when the bits cut off are more than half of 2^s, or are
\* half of it and q is odd
RoundedTo(p, m, s) ==
    Strict1(LAMBDA q :
                IF BBit(m, s - 1) = 1 /\ (~BLowZero(m, s - 1) \/ BBit(q, 0) = 1)
                THEN BAdd(q, <<1>>) ELSE q,
            BShr(m, s))

\* m * 2^e rounded to p significant bits
FRound(p, neg, m, e) ==
    Strict3(LAMBDA s, v, x :
                Strict1(LAMBDA len :
                            IF len <= p THEN FCanon(s, v, x)
                            ELSE FCanon(s, RoundedTo(p, v, len - p), x + (len - p)),
                        BitLen(v)),
            neg, m, e)

FNeg(a) ==
    Strict1(LAMBDA v : IF v.m = <<>> THEN v ELSE [v EXCEPT !.neg = ~v.neg], a)

FMul(p, a, b) ==
    Strict2(LAMBDA v, w : FRound(p, v.neg # w.neg, BMul(v.m, w.m), v.e + w.e),
            a, b)

\* a + b for a, b # 0, whose magnitudes at the smaller exponent e are ma, mb
FAddAligned(p, a, b, e, ma, mb) ==
    IF a.neg = b.neg THEN FRound(p, a.neg, BAdd(ma, mb), e)
    ELSE IF BLess(ma, mb) THEN FRound(p, b.neg, BSub(mb, ma), e)
    ELSE FRound(p, a.neg, BSub(ma, mb), e)

FAdd(p, a, b) ==
    Strict2(LAMBDA v, w :
                IF v.m = <<>> THEN w
                ELSE IF w.m = <<>> THEN v
                ELSE Strict1(LAMBDA e :
                                 Strict2(LAMBDA ma, mb :
                                             FAddAligned(p, v, w, e, ma, mb),
                                         BShl(v.m, v.e - e), BShl(w.m, w.e - e)),
                             IF v.e < w.e THEN v.e ELSE w.e),
            a, b)

FSub(p, a, b) == FAdd(p, a, FNeg(b))

\* an integer as a float (exact for the integers of this program)
FFromInt(n) ==
    Strict1(LAMBDA v : FCanon(v < 0, BFromInt(IF v < 0 THEN -v ELSE v), 0), n)

\* the decimal literal num / (d1 * d2) as the nearest float of precision p:
\* the quotient of num * 2^k is cut to at least p + 2 bits, and one more
\* bit below them tells whether anything was cut off
FLitFrom(p, d2, k, s1) ==
    Strict1(LAMBDA s2 :
                FRound(p, FALSE,
                       BAdd(BShl(s2.q, 1),
                            BFromInt(IF s1.r = 0 /\ s2.r = 0 THEN 0 ELSE 1)),
                       -(k + 1)),
            BDivSmall(s1.q, d2))

FLit(p, num, d1, d2) ==
    Strict1(LAMBDA k :
                Strict1(LAMBDA s1 : FLitFrom(p, d2, k, s1),
                        BDivSmall(BShl(BFromInt(num), k), d1)),
            p + 2 + IntBitLen(d1) + IntBitLen(d2))

\* f.round(): to the nearest integer, halves away from zero
FRoundInt(a) ==
    Strict1(LAMBDA v :
                Strict1(LAMBDA mag : IF v.neg THEN -mag ELSE mag,
                        IF v.e >= 0 THEN BToInt(BShl(v.m, v.e))
                        ELSE BToInt(BShr(v.m, -v.e)) + BBit(v.m, -v.e - 1)),
            a)

(* ------------------------------------------------------------------ *)
(* Colour conversion                                                  *)
(* ------------------------------------------------------------------ *)

\* a cast that keeps the low eight bits
AsU8Wrapping(n) == n % 256

\* f as u8: a float-to-integer cast saturates at the bounds of the type
AsU8(n) == Strict1(LAMBDA v : IF v < 0 THEN 0 ELSE IF v > 255 THEN 255 ELSE v, n)

\* the f64 literals of rgb_to_ycbcr
K0_299 == FLit(F64, 299, 1000, 1)
K0_587 == FLit(F64, 587, 1000, 1)
K0_114 == FLit(F64, 114, 1000, 1)
K0_169 == FLit(F64, 169, 1000, 1)
K0_331 == FLit(F64, 331, 1000, 1)
K0_5   == FLit(F64, 5, 10, 1)
K0_419 == FLit(F64, 419, 1000, 1)
K0_081 == FLit(F64, 81, 1000, 1)
K128   == FFromInt(128)

\* the f32 literals of ycbcr_to_rgb
K1_402   == FLit(F32, 1402, 1000, 1)
K0_34414 == FLit(F32, 34414, 1000, 100)
K0_71414 == FLit(F32, 71414, 1000, 100)
K1_772   == FLit(F32, 1772, 1000, 1)

\* the three rounded f64 values of rgb_to_ycbcr, before they are narrowed
RoundedYCbCrFrom(r, g, b) ==
    LET y == FAdd(F64, FAdd(F64, FMul(F64, K0_299, r), FMul(F64, K0_587, g)),
                       FMul(F64, K0_114, b))
        cb == FAdd(F64,
                FAdd(F64,
                  FSub(F64, FMul(F64, FNeg(K0_169), r), FMul(F64, K0_331, g)),
                  FMul(F64, K0_5, b)),
                K128)
        cr == FAdd(F64,
                FSub(F64,
                  FSub(F64, FMul(F64, K0_5, r), FMul(F64, K0_419, g)),
                  FMul(F64, K0_081, b)),
                K128)
    IN  <<FRoundInt(y), FRoundInt(cb), FRoundInt(cr)>>

RoundedYCbCr(px) ==
    Strict3(RoundedYCbCrFrom, FFromInt(px[1]), FFromInt(px[2]), FFromInt(px[3]))

\* the chrominance pair returned in the other order
rgb_to_ycbcr_swapped(px) ==
    Strict1(LAMBDA v : <<AsU8(v[1]), AsU8(v[3]), AsU8(v[2])>>, RoundedYCbCr(px))

rgb_to_ycbcr(px) ==
    Strict1(LAMBDA v : <<AsU8(v[1]), AsU8(v[2]), AsU8(v[3])>>, RoundedYCbCr(px))

\* the three rounded f32 values of ycbcr_to_rgb, before they are narrowed
RoundedRgbFrom(y, dcb, dcr) ==
    LET r == FAdd(F32, y, FMul(F32, K1_402, dcr))
        g == FSub(F32, FSub(F32, y, FMul(F32, K0_34414, dcb)),
                       FMul(F32, K0_71414, dcr))
        b == FAdd(F32, y, FMul(F32, K1_772, dcb))
    IN  <<FRoundInt(r), FRoundInt(g), FRoundInt(b)>>

RoundedRgb(y, cb, cr) ==
    Strict3(RoundedRgbFrom, y, FSub(F32, cb, K128), FSub(F32, cr, K128))

ycbcr_to_rgb(y, cb, cr) ==
    Strict1(LAMBDA v : <<AsU8(v[1]), AsU8(v[2]), AsU8(v[3])>>,
            RoundedRgb(y, cb, cr))

(* ------------------------------------------------------------------ *)
(* get_watermark_from_str                                             *)
(*                                                                    *)
(* A text is a sequence of characters, each a one-character string.   *)
(* "U+00E9" and "U+1F600" stand for the characters of those code      *)
(* points, which take 2 and 4 bytes in UTF-8.                         *)
(* ------------------------------------------------------------------ *)
\* the alphabet with "," typed a second time in the place of ";"
char_map_typo ==
    << "A", "B", "C", "D", "E", "F", "G", "H", "I", "J", "K", "L", "M",
       "N", "O", "P", "Q", "R", "S", "T", "U", "V", "W", "X", "Y", "Z",
       "a", "b", "c", "d", "e", "f", "g", "h", "i", "j", "k", "l", "m",
       "n", "o", "p", "q", "r", "s", "t", "u", "v", "w", "x", "y", "z",
       "0", "1", "2", "3", "4", "5", "6", "7", "8", "9",
       "!", "@", "#", "$", "%", "^", "&", "*", "(", ")", ",", ".", "<",
       ">", "/", "?", ",", " " >>

char_map ==
    << "A", "B", "C", "D", "E", "F", "G", "H", "I", "J", "K", "L", "M",
       "N", "O", "P", "Q", "R", "S", "T", "U", "V", "W", "X", "Y", "Z",
       "a", "b", "c", "d", "e", "f", "g", "h", "i", "j", "k", "l", "m",
       "n", "o", "p", "q", "r", "s", "t", "u", "v", "w", "x", "y", "z",
       "0", "1", "2", "3", "4", "5", "6", "7", "8", "9",
       "!", "@", "#", "$", "%", "^", "&", "*", "(", ")", ",", ".", "<",
       ">", "/", "?", ";", " " >>

Utf8Len(c) == IF c = "U+1F600" THEN 4 ELSE IF c = "U+00E9" THEN 2 ELSE 1

\* str::len: the length in bytes
RECURSIVE ByteLen(_)
ByteLen(w) == IF w = <<>> THEN 0 ELSE Utf8Len(Head(w)) + ByteLen(Tail(w))

\* the position counted from 1
FindFromOne(s, c) ==
    IF \E k \in 1..Len(s) : s[k] = c
    THEN CHOOSE k \in 1..Len(s) : s[k] = c /\ \A j \in 1..(k - 1) : s[j] # c
    ELSE -1

\* str::find(char): the offset of the first occurrence (s is ASCII: the byte
\* offset is the character offset), -1 for None
Find(s, c) ==
    IF \E k \in 1..Len(s) : s[k] = c
    THEN (CHOOSE k \in 1..Len(s) : s[k] = c /\ \A j \in 1..(k - 1) : s[j] # c) - 1
    ELSE -1

Ok(v) == [ok |-> TRUE, val |-> v, err |-> "", c |-> ""]
Err(msg, c) == [ok |-> FALSE, val |-> FZero, err |-> msg, c |-> c]

\* option_env!("WATERMARK_STRENGTH").unwrap_or("0.01").parse::<f32>(), in a
\* build that does not set WATERMARK_STRENGTH
WATERMARK_STRENGTH == FLit(F32, 1, 100, 1)

\* an accumulator that outlives the call: it starts at the value the last
\* call derived
InitialRetStale == watermark

\* let mut ret = 0.0
InitialRet == FZero

\* the loop passing over a character that is not in char_map
RECURSIVE WatermarkLoopSkipping(_, _, _)
WatermarkLoopSkipping(w, n, ret) ==
    IF n >= ByteLen(w) THEN Ok(FMul(F32, ret, WATERMARK_STRENGTH))
    ELSE IF n >= Len(w) THEN Err("invalid index", "")
    ELSE Strict2(LAMBDA c, char_idx :
                     IF char_idx = -1 THEN WatermarkLoopSkipping(w, n + 1, ret)
                     ELSE WatermarkLoopSkipping(w, n + 1,
                                        FAdd(F32, ret, FFromInt(char_idx))),
                 w[n + 1], Find(char_map, w[n + 1]))

\* the loop of get_watermark_from_str from index n on, and the final product
RECURSIVE WatermarkLoop(_, _, _)
WatermarkLoop(w, n, ret) ==
    IF n >= ByteLen(w) THEN Ok(FMul(F32, ret, WATERMARK_STRENGTH))
    ELSE IF n >= Len(w) THEN Err("invalid index", "")
    ELSE Strict2(LAMBDA c, char_idx :
                     IF char_idx = -1 THEN Err("Invalid character", c)
                     ELSE WatermarkLoop(w, n + 1,
                                        FAdd(F32, ret, FFromInt(char_idx))),
                 w[n + 1], Find(char_map, w[n + 1]))

get_watermark_from_str(w) == WatermarkLoop(w, 0, InitialRet)

\* the luminance stored without the watermark
LumaSampleUnmarked(y, w) == FFromInt(y)

\* y as f32 + watermark: the luminance sample embed_watermark_color stores
LumaSample(y, w) == FAdd(F32, FFromInt(y), w)

(* ------------------------------------------------------------------ *)
(* Inputs                                                             *)
(* ------------------------------------------------------------------ *)
MaxLen == 3
EdgeWidth == 1
MidStep == 64

HelloWorld == <<"H", "e", "l", "l", "o", ",", " ", "W", "o", "r", "l", "d", "!">>

\* the first and the last symbol of char_map, one from the middle, a tab, a
\* two-byte and a four-byte character
CharSample == {"A", "l", " ", "\t", "U+00E9", "U+1F600"}

RECURSIVE SeqsUpTo(_, _)
SeqsUpTo(S, n) ==
    IF n = 0 THEN {<<>>}
    ELSE LET shorter == SeqsUpTo(S, n - 1)
         IN  shorter \cup {Append(w, c) : w \in shorter, c \in S}

Texts == SeqsUpTo(CharSample, MaxLen) \cup {HelloWorld}

\* channel values at both ends of the range, 128, and multiples of MidStep
Levels ==
    (0..EdgeWidth) \cup ((255 - EdgeWidth)..255) \cup {128}
        \cup {MidStep * k : k \in 1..(255 \div MidStep)}

Triples == {<<r, g, b>> : r \in Levels, g \in Levels, b \in Levels}

\* the watermark values added to the luminance: none, and that of HelloWorld
Marks == {FZero, get_watermark_from_str(HelloWorld).val}

(* ------------------------------------------------------------------ *)
(* SpecText: one call of get_watermark_from_str                       *)
(* ------------------------------------------------------------------ *)
Pending == Err("pending", "")
NoTriple == <<0, 0, 0>>

IdleT == pcT = "idle" /\ words = <<>> /\ derived = Pending
IdleC ==
    /\ pcC = "idle" /\ pixel = NoTriple /\ mark = FZero /\ ycc = NoTriple
    /\ back = NoTriple /\ rounded = [fwd |-> NoTriple, inv |-> NoTriple]

InitT == pcT = "call" /\ words \in Texts /\ derived = Pending

Derive ==
    /\ pcT = "call"
    /\ derived' = get_watermark_from_str(words)
    /\ pcT' = "returned"
    /\ UNCHANGED <<words, varsC, varsE>>

(* ------------------------------------------------------------------ *)
(* SpecColor: one pixel converted as embed_watermark_color converts   *)
(* it, rgb_to_ycbcr, the watermark added to the luminance, and        *)
(* ycbcr_to_rgb                                                       *)
(* ------------------------------------------------------------------ *)
InitC ==
    /\ pcC = "start" /\ pixel \in Triples /\ mark \in Marks
    /\ ycc = NoTriple /\ back = NoTriple
    /\ rounded = [fwd |-> NoTriple, inv |-> NoTriple]

Forward ==
    /\ pcC = "start"
    /\ ycc' = rgb_to_ycbcr(pixel)
    /\ rounded' = [rounded EXCEPT !.fwd = RoundedYCbCr(pixel)]
    /\ pcC' = "converted"
    /\ UNCHANGED <<pixel, mark, back, varsT, varsE>>

Inverse ==
    /\ pcC = "converted"
    /\ \E y_ch \in {LumaSample(ycc[1], mark)},
          cb \in {FFromInt(ycc[2])}, cr \in {FFromInt(ycc[3])} :
           /\ back' = ycbcr_to_rgb(y_ch, cb, cr)
           /\ rounded' = [rounded EXCEPT !.inv = RoundedRgb(y_ch, cb, cr)]
    /\ pcC' = "restored"
    /\ UNCHANGED <<pixel, mark, ycc, varsT, varsE>>

(* ------------------------------------------------------------------ *)
(* Spec: calls of embed_watermark_color, one after the other          *)
(*                                                                    *)
(* An image is [width, height, px], px the pixels in row-major order. *)
(* An optional value is a sequence of length 0 or 1.                  *)
(*                                                                    *)
(* rustdct is outside this repository.  Its transforms are modelled   *)
(* by what they compute in exact arithmetic: process_dct2 takes the   *)
(* samples x to their unnormalised DCT-II coefficients, process_dct3  *)
(* takes those back to x scaled by len / 2.  The buffer is held as    *)
(* the samples x, the domain they are in, and the factor applied so   *)
(* far, (len / 2)^pairs * sqrt(2 / len)^norms; the rounding inside    *)
(* the transforms is not modelled.  width * height is a u32 product;  *)
(* the images of the model are far from its overflow.                 *)
(* ------------------------------------------------------------------ *)
MaxWidth == 2
MaxHeight == 2
MaxCalls == 2

Palette ==
    << <<255, 255, 255>>, <<100, 0, 0>>, <<0, 0, 255>>, <<128, 128, 128>>,
       <<255, 0, 0>>, <<0, 255, 1>> >>

\* the w x h image whose pixels run through the palette
Picture(w, h) ==
    [width |-> w, height |-> h,
     px |-> [k \in 1..(w * h) |-> Palette[((k - 1) % Len(Palette)) + 1]]]

Images == {Picture(w, h) : w \in 0..MaxWidth, h \in 0..MaxHeight}

\* the empty text, a text of the alphabet, a text with a tab in it
EmbedTexts == {<<>>, HelloWorld, <<"l", "\t", "A">>}

\* let idx_fn = |x: u32, y: u32| (y * width + x) as usize
idx_fn(x, y, width) == y * width + x

\* the coordinates of the n-th pixel (from 0) that enumerate_pixels yields
PixelX(n, width) == n % width
PixelY(n, width) == n \div width

\* vec![0.0; len]
FreshLuma(len) ==
    [dom |-> "sample", x |-> [k \in 1..len |-> FZero], pairs |-> 0, norms |-> 0]

\* vec![(0, 0); len]
FreshChroma(len) == [k \in 1..len |-> <<0, 0>>]

\* the buffer created with its sides exchanged
NewImageTransposed(width, height) ==
    [width |-> height, height |-> width,
     px |-> [k \in 1..(width * height) |-> <<0, 0, 0>>]]

\* RgbImage::new(width, height): every pixel zero
NewImage(width, height) ==
    [width |-> width, height |-> height,
     px |-> [k \in 1..(width * height) |-> <<0, 0, 0>>]]

\* the error replaced by a watermark of zero
QuestionOrZero(r) == IF r.ok THEN r ELSE [r EXCEPT !.ok = TRUE]

\* get_watermark_from_str(watermark)?: an error is the result of the call
Question(r) == r

NoResult == [status |-> "none", img |-> <<>>, err |-> "", c |-> ""]
ErrResult(r) == [status |-> "err", img |-> <<>>, err |-> r.err, c |-> r.c]
OkResult(img) == [status |-> "ok", img |-> <<img>>, err |-> "", c |-> ""]

\* the first call that returns is remembered
Remember(img, txt, res) ==
    IF prev = <<>> THEN <<[image |-> img, text |-> txt, result |-> res]>>
    ELSE prev

InitE ==
    /\ pc = "idle"
    /\ image = NewImage(0, 0) /\ text = <<>>
    /\ watermark = FZero
    /\ cbcr_channel = <<>> /\ y_channel = FreshLuma(0)
    /\ cursor = 0 /\ planned = <<>> /\ img_buffer = <<>>
    /\ result = NoResult
    /\ marked = <<>> /\ calls = 0 /\ prev = <<>>

\* lines 28-38: w is what line 29 evaluates, the validated text; the
\* buffers are allocated
Begin(img, txt, w) ==
    /\ pc \in {"idle", "returned"}
    /\ calls < MaxCalls
    /\ calls' = calls + 1
    /\ image' = img
    /\ text' = txt
    /\ planned' = <<>>
    /\ img_buffer' = <<>>
    /\ cursor' = 0
    /\ \E len \in {img.width * img.height} :
           IF ~w.ok
           THEN /\ result' = ErrResult(w)
                /\ prev' = Remember(img, txt, ErrResult(w))
                /\ pc' = "returned"
                /\ watermark' = FZero
                /\ cbcr_channel' = <<>>
                /\ y_channel' = FreshLuma(0)
                /\ marked' = <<>>
           ELSE /\ result' = NoResult
                /\ prev' = prev
                /\ pc' = "convert"
                /\ watermark' = w.val
                /\ cbcr_channel' = FreshChroma(len)
                /\ y_channel' = FreshLuma(len)
                /\ marked' = [k \in 1..len |-> ""]
    /\ UNCHANGED <<varsT, varsC>>

\* lines 40-46: one pixel of the input
ConvertPixel ==
    /\ pc = "convert"
    /\ cursor < image.width * image.height
    /\ \E idx \in {idx_fn(PixelX(cursor, image.width),
                            PixelY(cursor, image.width), image.width) + 1},
          yuv \in {rgb_to_ycbcr(image.px[cursor + 1])} :
           /\ cbcr_channel' = [cbcr_channel EXCEPT ![idx] = <<yuv[2], yuv[3]>>]
           /\ y_channel' =
                  [y_channel EXCEPT !.x[idx] = LumaSample(yuv[1], watermark)]
           /\ marked' = [marked EXCEPT ![idx] = y_channel.dom]
    /\ cursor' = cursor + 1
    /\ UNCHANGED <<pc, image, text, watermark, planned, img_buffer, result,
                   calls, prev, varsT, varsC>>

\* lines 48-50: plan_dct2(len), process_dct2
ForwardDct ==
    /\ pc = "convert"
    /\ cursor = image.width * image.height
    /\ planned' = Append(planned, <<"dct2", image.width * image.height>>)
    /\ y_channel' = [y_channel EXCEPT !.dom = "coefficient"]
    /\ pc' = "norm1"
    /\ UNCHANGED <<image, text, watermark, cbcr_channel, cursor, img_buffer,
                   result, marked, calls, prev, varsT, varsC>>

\* lines 52-54: every coefficient times normalization_factor
NormalizeCoefficients ==
    /\ pc = "norm1"
    /\ y_channel' = [y_channel EXCEPT !.norms = @ + 1]
    /\ pc' = "dct3"
    /\ UNCHANGED <<image, text, watermark, cbcr_channel, cursor, planned,
                   img_buffer, result, marked, calls, prev, varsT, varsC>>

\* lines 56-57: plan_dct3(len), process_dct3
InverseDct ==
    /\ pc = "dct3"
    /\ planned' = Append(planned, <<"dct3", image.width * image.height>>)
    /\ y_channel' = [y_channel EXCEPT !.dom = "sample", !.pairs = @ + 1]
    /\ pc' = "norm2"
    /\ UNCHANGED <<image, text, watermark, cbcr_channel, cursor, img_buffer,
                   result, marked, calls, prev, varsT, varsC>>

\* lines 58-62: every sample times normalization_factor, RgbImage::new
NormalizeSamples ==
    /\ pc = "norm2"
    /\ y_channel' = [y_channel EXCEPT !.norms = @ + 1]
    /\ img_buffer' = <<NewImage(image.width, image.height)>>
    /\ cursor' = 0
    /\ pc' = "write"
    /\ UNCHANGED <<image, text, watermark, cbcr_channel, planned, result,
                   marked, calls, prev, varsT, varsC>>

\* y_channel[index], once the factor applied to the samples is
\* (len / 2) * sqrt(2 / len)^2 = 1
LumaAt(index) == y_channel.x[index]

\* lines 63-69: one pixel of the output
WritePixel ==
    /\ pc = "write"
    /\ cursor < img_buffer[1].width * img_buffer[1].height
    /\ \E index \in {idx_fn(PixelX(cursor, img_buffer[1].width),
                              PixelY(cursor, img_buffer[1].width),
                              image.width) + 1} :
           img_buffer' =
               [img_buffer EXCEPT ![1].px[cursor + 1] =
                    ycbcr_to_rgb(LumaAt(index),
                                 FFromInt(cbcr_channel[index][1]),
                                 FFromInt(cbcr_channel[index][2]))]
    /\ cursor' = cursor + 1
    /\ UNCHANGED <<pc, image, text, watermark, cbcr_channel, y_channel,
                   planned, result, marked, calls, prev, varsT, varsC>>

\* line 71: Ok(img_buffer)
Return ==
    /\ pc = "write"
    /\ cursor = img_buffer[1].width * img_buffer[1].height
    /\ result' = OkResult(img_buffer[1])
    /\ prev' = Remember(image, text, OkResult(img_buffer[1]))
    /\ pc' = "returned"
    /\ UNCHANGED <<image, text, watermark, cbcr_channel, y_channel, cursor,
                   planned, img_buffer, marked, calls, varsT, varsC>>

(* ------------------------------------------------------------------ *)
(* The three specifications                                           *)
(* ------------------------------------------------------------------ *)
Init == InitE /\ IdleT /\ IdleC

Next ==
    \/ \E txt \in EmbedTexts :
           \E w \in {Question(get_watermark_from_str(txt))} :
               \E img \in Images : Begin(img, txt, w)
    \/ ConvertPixel
    \/ ForwardDct
    \/ NormalizeCoefficients
    \/ InverseDct
    \/ NormalizeSamples
    \/ WritePixel
    \/ Return

Spec == Init /\ [][Next]_vars

NextT == Derive

InitText == InitT /\ IdleC /\ InitE

SpecText == InitText /\ [][NextT]_vars

NextC == Forward \/ Inverse

InitColor == InitC /\ IdleT /\ InitE

SpecColor == InitColor /\ [][NextC]_vars

(* ------------------------------------------------------------------ *)
(* Properties                                                         *)
(* ------------------------------------------------------------------ *)
Abs(n) == IF n < 0 THEN -n ELSE n

\* the triples of test_rgb_to_ycbcr
TestTriples ==
    { <<255, 255, 255>>, <<254, 0, 0>>, <<0, 255, 1>>, <<0, 0, 254>>,
      <<0, 0, 0>>, <<128, 128, 128>> }

InAlphabet(c) == \E k \in 1..Len(char_map) : char_map[k] = c
AllInAlphabet(w) == \A k \in 1..Len(w) : InAlphabet(w[k])
PositionOf(c) == CHOOSE k \in 1..Len(char_map) : char_map[k] = c

RECURSIVE IndexSum(_, _)
IndexSum(w, n) ==
    IF n = 0 THEN 0 ELSE IndexSum(w, n - 1) + (PositionOf(w[n]) - 1)

FirstOutside(w) ==
    w[CHOOSE k \in 1..Len(w) :
          ~InAlphabet(w[k]) /\ \A j \in 1..(k - 1) : InAlphabet(w[j])]

AlphabetDistinct ==
    /\ \A j, k \in 1..Len(char_map) : char_map[j] = char_map[k] => j = k
    /\ \A k \in 1..Len(char_map) : Find(char_map, char_map[k]) = k - 1

Saturated(n) == IF n < 0 THEN 0 ELSE IF n > 255 THEN 255 ELSE n

(* C1, as claimed: rgb_to_ycbcr followed by ycbcr_to_rgb returns exactly the
   original triple, for every triple. *)
RoundTripExact == (pcC = "restored" /\ mark = FZero) => back = pixel

(* C1, amended: rgb_to_ycbcr followed by ycbcr_to_rgb returns a triple whose
   channels each differ from the original by at most 1; it returns the
   original exactly for the six triples of test_rgb_to_ycbcr and for every
   grey triple r = g = b. *)
RoundTripWithinOne ==
    (pcC = "restored" /\ mark = FZero) =>
        /\ \A k \in 1..3 : Abs(back[k] - pixel[k]) <= 1
        /\ (pixel \in TestTriples \/ (pixel[1] = pixel[2] /\ pixel[2] = pixel[3]))
               => back = pixel

\* pure red comes back one short
RoundTripOffByOne ==
    /\ pcC = "restored" /\ mark = FZero
    /\ pixel = <<255, 0, 0>> /\ back = <<254, 0, 0>>

(* C2: for a text made only of alphabet symbols get_watermark_from_str
   returns the sum, in input order, of the 0-based alphabet indices of its
   characters, times the strength 0.01 (one f32 product); "" gives 0.0 and
   "Hello, World!" gives the f32 5.35. *)
DerivedIsIndexSumTimesStrength ==
    (pcT = "returned" /\ AllInAlphabet(words)) =>
        /\ derived = Ok(FMul(F32, FFromInt(IndexSum(words, Len(words))),
                             FLit(F32, 1, 100, 1)))
        /\ words = <<>> => derived.val = FZero
        /\ words = HelloWorld => derived.val = FLit(F32, 535, 100, 1)

HelloWorldDerived ==
    /\ pcT = "returned" /\ words = HelloWorld
    /\ derived.ok /\ derived.val = FLit(F32, 535, 100, 1)

(* C3: for a text with a character outside the alphabet, wherever it sits,
   get_watermark_from_str returns no value but the invalid-character error,
   carrying the first such character. *)
InvalidTextFails ==
    (pcT = "returned" /\ ~AllInAlphabet(words)) =>
        /\ ~derived.ok
        /\ derived.err = "Invalid character"
        /\ derived.c = FirstOutside(words)

\* a four-byte character after a valid one and before a tab
EmojiRejected ==
    /\ pcT = "returned" /\ words = <<"A", "U+1F600", "\t">>
    /\ derived = Err("Invalid character", "U+1F600")

(* C8, as claimed: the alphabet is a sequence of exactly 83 symbols, all
   distinct, the first-occurrence index of each being its position. *)
AlphabetOf83Distinct ==
    pcT # "idle" => (Len(char_map) = 83 /\ AlphabetDistinct)

(* C8, amended: the alphabet is a sequence of exactly 80 symbols, all
   distinct, so that the first-occurrence index of a symbol is its unique
   position in 0..79; every character of a text that was given a value is
   at exactly one position. *)
AlphabetOf80Distinct ==
    /\ pcT # "idle" => (Len(char_map) = 80 /\ AlphabetDistinct)
    /\ (pcT = "returned" /\ derived.ok) =>
           \A k \in 1..Len(words) :
               Cardinality({j \in 1..Len(char_map) : char_map[j] = words[k]}) = 1

\* the last symbol, the space, is found at index 79
LastSymbolLookedUp ==
    /\ pcT = "returned" /\ words = <<" ">>
    /\ derived = Ok(FMul(F32, FFromInt(79), FLit(F32, 1, 100, 1)))

(* C10, as claimed: a rounded value outside 0..255 is wrapped into 0..255 by
   the narrowing, in rgb_to_ycbcr and in ycbcr_to_rgb. *)
NarrowingWraps ==
    /\ pcC \in {"converted", "restored"} =>
           \A k \in 1..3 : ycc[k] = rounded.fwd[k] % 256
    /\ pcC = "restored" => \A k \in 1..3 : back[k] = rounded.inv[k] % 256

(* C10, amended: in rgb_to_ycbcr and ycbcr_to_rgb each channel is rounded and
   then narrowed by a saturating cast: a rounded value below 0 becomes 0 and
   one above 255 becomes 255; it is not wrapped. *)
NarrowingSaturates ==
    /\ pcC \in {"converted", "restored"} =>
           \A k \in 1..3 : ycc[k] = Saturated(rounded.fwd[k])
    /\ pcC = "restored" => \A k \in 1..3 : back[k] = Saturated(rounded.inv[k])

\* Cr of pure red rounds to 256 and is stored as 255; with the watermark of
\* HelloWorld on the luminance a channel of the result rounds above 255
NarrowedOutOfRange ==
    /\ pcC = "restored"
    /\ rounded.fwd[3] = 256 /\ ycc[3] = 255
    /\ \E k \in 1..3 : rounded.inv[k] > 255 /\ back[k] = 255

(* C4: when the text fails validation embed_watermark_color returns that
   error at once: in every state of such a call the call has returned it,
   no buffer was allocated, no pixel converted, no transform planned and no
   output raster created. *)
FailedValidationProducesNothing ==
    (pc # "idle" /\ ~AllInAlphabet(text)) =>
        /\ pc = "returned"
        /\ result = ErrResult(get_watermark_from_str(text))
        /\ result.status = "err" /\ result.img = <<>>
        /\ img_buffer = <<>> /\ planned = <<>>
        /\ cbcr_channel = <<>> /\ y_channel.x = <<>> /\ marked = <<>>

FailedOnFullImage ==
    /\ pc = "returned" /\ ~AllInAlphabet(text)
    /\ image.width = 2 /\ image.height = 2
    /\ result.status = "err" /\ result.c = "\t"

(* C5: the raster embed_watermark_color returns, and the buffer it fills,
   have the width and the height of the input raster. *)
SameDimensions ==
    /\ img_buffer # <<>> =>
           /\ img_buffer[1].width = image.width
           /\ img_buffer[1].height = image.height
           /\ Len(img_buffer[1].px) = image.width * image.height
    /\ (pc = "returned" /\ result.status = "ok") =>
           /\ result.img[1].width = image.width
           /\ result.img[1].height = image.height

ReturnedTwoByOne ==
    /\ pc = "returned" /\ result.status = "ok"
    /\ image.width = 2 /\ image.height = 1
    /\ result.img[1].width = 2 /\ result.img[1].height = 1

(* C6: for a 0x0 raster embed_watermark_color returns an error or a 0x0
   raster, and no transform is planned or run (none of length 0 is asked
   for); for a 1x1 raster and a valid text it returns a 1x1 raster. *)
DegenerateNeverTransformed ==
    /\ (pc # "idle" /\ image.width = 0 /\ image.height = 0) =>
           /\ planned = <<>>
           /\ y_channel.dom = "sample"
           /\ pc = "returned" =>
                  \/ result.status = "err"
                  \/ /\ result.status = "ok"
                     /\ result.img[1].width = 0 /\ result.img[1].height = 0
    /\ (pc = "returned" /\ image.width = 1 /\ image.height = 1
           /\ AllInAlphabet(text)) =>
           /\ result.status = "ok"
           /\ result.img[1].width = 1 /\ result.img[1].height = 1

(* C7: a call with the raster and the text of an earlier call returns the
   result that call returned, whatever was called in between. *)
SameInputSameOutput ==
    (pc = "returned" /\ prev # <<>>
       /\ prev[1].image = image /\ prev[1].text = text) =>
        result = prev[1].result

RepeatedCall ==
    /\ pc = "returned" /\ calls = 2
    /\ prev # <<>> /\ prev[1].image = image /\ prev[1].text = text
    /\ text = HelloWorld /\ image.width = 2 /\ image.height = 2
    /\ result.status = "ok"

(* C9, as claimed: the watermark is added to the elements of the buffer
   after the forward transform and before the inverse one, to every
   coefficient. *)
MarkAddedToCoefficients ==
    /\ \A k \in 1..Len(marked) : marked[k] \in {"", "coefficient"}
    /\ pc = "dct3" => \A k \in 1..Len(marked) : marked[k] = "coefficient"

(* C9, amended: the watermark is added to every luminance sample, all
   width x height of them, in the pixel loop before the forward type-II
   transform; between the forward and the inverse transform the buffer holds
   the coefficients of those samples and nothing is added to them. *)
MarkAddedToSamples ==
    /\ \A k \in 1..Len(marked) : marked[k] \in {"", "sample"}
    /\ pc \in {"norm1", "dct3"} =>
           /\ y_channel.dom = "coefficient"
           /\ Len(marked) = image.width * image.height
           /\ Len(y_channel.x) = image.width * image.height
           /\ \A k \in 1..Len(marked) :
                  /\ marked[k] = "sample"
                  /\ y_channel.x[k] =
                         FAdd(F32, FFromInt(rgb_to_ycbcr(image.px[k])[1]),
                              get_watermark_from_str(text).val)
    /\ pc = "write" =>
           /\ y_channel.dom = "sample"
           /\ y_channel.pairs = 1 /\ y_channel.norms = 2
           /\ \A k \in 1..Len(marked) : marked[k] = "sample"

BetweenTransforms ==
    /\ pc = "dct3" /\ text = HelloWorld
    /\ image.width = 2 /\ image.height = 2
    /\ \A k \in 1..4 : marked[k] = "sample"

====
